---- MODULE Spec2Model ----
(***************************************************************************)
(* CyberLama (src/cyberlama.py): the streaming response processor          *)
(* stream_completion, in its rich-renderer and raw streaming paths, and    *)
(* the session loop that calls it.                                         *)
(*                                                                         *)
(* Text is a sequence of one-character strings.  The three characters the  *)
(* code distinguishes are the backtick, the newline and "any other".       *)
(***************************************************************************)
EXTENDS Integers, Sequences, FiniteSets, TLC

\* ------------------------------------------------------------------ bounds
MaxInput == 7   \* weight of what one session is fed: two per ordinary
                \* prompt or command, four per ephemeral prompt or
                \* command that adds a message, one per content character,
                \* one per usage object, one per finish_reason, two for
                \* the finish_reason "length"
MaxDelta == 4   \* longest content delta of one chunk
MaxTok   == 1   \* largest prompt_tokens a usage object reports
MaxLine  == 6   \* longest line of code handed to the highlighter

\* --------------------------------------------------------- program constants
AUTO_CONTINUE_LIMIT == 2

\* the backtick character (written "bt": a TLA+ string cannot hold a backtick)
BT == "bt"
NL == "\n"
Alphabet == {BT, NL, "a"}

\* ------------------------------------------------------------ text helpers
Min(S) == CHOOSE x \in S : \A y \in S : x <= y

Drop(s, n) == SubSeq(s, n + 1, Len(s))

RECURSIVE Join(_)
\* "".join(parts)
Join(parts) == IF parts = <<>> THEN <<>> ELSE Head(parts) \o Join(Tail(parts))

\* the three-character marker starts at position i of s
IsFenceAt(s, i) == /\ i >= 1
                   /\ i + 2 <= Len(s)
                   /\ s[i] = BT /\ s[i + 1] = BT /\ s[i + 2] = BT

\* str.find(FENCE, i): first position >= i where a marker starts, 0 if none
FindFence(s, i) ==
    LET c == {j \in i..(Len(s) - 2) : IsFenceAt(s, j)}
    IN  IF c = {} THEN 0 ELSE Min(c)

\* str.find("\n", i)
FindNL(s, i) ==
    LET c == {j \in i..Len(s) : j >= 1 /\ s[j] = NL}
    IN  IF c = {} THEN 0 ELSE Min(c)

RECURSIVE SplitFence(_)
\* delta.split(FENCE): leftmost, non-overlapping
SplitFence(s) ==
    LET j == FindFence(s, 1)
    IN  IF j = 0 THEN <<s>>
        ELSE <<SubSeq(s, 1, j - 1)>> \o SplitFence(Drop(s, j + 2))

RECURSIVE TakeLines(_, _)
\* while "\n" in buffer: line_content, buffer = buffer.split("\n", 1);
\*     current_block_content.append(line_content + "\n")
TakeLines(cbc, buf) ==
    LET j == FindNL(buf, 1)
    IN  IF j = 0 THEN [cbc |-> cbc, buffer |-> buf]
        ELSE TakeLines(Append(cbc, SubSeq(buf, 1, j)), Drop(buf, j))

RECURSIVE FindAllBlocks(_)
\* re.findall(FENCE .*? NL (.*?) FENCE, full_content, re.DOTALL)
FindAllBlocks(s) ==
    LET p == FindFence(s, 1)
        q == IF p = 0 THEN 0 ELSE FindNL(s, p + 3)
        r == IF q = 0 THEN 0 ELSE FindFence(s, q + 1)
    IN  IF r = 0 THEN <<>>
        ELSE <<SubSeq(s, q + 1, r - 1)>> \o FindAllBlocks(Drop(s, r + 2))

\* ------------------------------------------------------ syntax highlighter
\* A line of code is a sequence of characters. The escape character \033 is
\* the token "esc"; a color is the character sequence of its escape code.
ESC == "esc"
RESET == <<ESC, "[", "0", "m">>
YELLOW == <<ESC, "[", "3", "3", "m">>
BLUE == <<ESC, "[", "3", "4", "m">>
CYAN == <<ESC, "[", "3", "6", "m">>
GRAY == <<ESC, "[", "9", "0", "m">>

KEYWORDS ==
    {<<"d", "e", "f">>, <<"c", "l", "a", "s", "s">>,
     <<"i", "m", "p", "o", "r", "t">>, <<"f", "r", "o", "m">>,
     <<"r", "e", "t", "u", "r", "n">>, <<"i", "f">>, <<"e", "l", "i", "f">>,
     <<"e", "l", "s", "e">>, <<"w", "h", "i", "l", "e">>, <<"f", "o", "r">>,
     <<"i", "n">>, <<"t", "r", "y">>, <<"e", "x", "c", "e", "p", "t">>,
     <<"r", "a", "i", "s", "e">>, <<"p", "r", "i", "n", "t">>,
     <<"w", "i", "t", "h">>, <<"a", "s">>, <<"p", "a", "s", "s">>,
     <<"b", "r", "e", "a", "k">>, <<"c", "o", "n", "t", "i", "n", "u", "e">>,
     <<"T", "r", "u", "e">>, <<"F", "a", "l", "s", "e">>,
     <<"N", "o", "n", "e">>, <<"a", "s", "y", "n", "c">>,
     <<"a", "w", "a", "i", "t">>, <<"l", "a", "m", "b", "d", "a">>,
     <<"g", "l", "o", "b", "a", "l">>,
     <<"n", "o", "n", "l", "o", "c", "a", "l">>,
     <<"a", "s", "s", "e", "r", "t">>, <<"d", "e", "l">>}

\* \d and \w of the regular expressions
Digits == {"0", "1", "2", "3", "4", "5", "6", "7", "8", "9"}

Letters ==
    {"a", "b", "c", "d", "e", "f", "g", "h", "i", "j", "k", "l", "m", "n",
     "o", "p", "q", "r", "s", "t", "u", "v", "w", "x", "y", "z", "A", "B",
     "C", "D", "E", "F", "G", "H", "I", "J", "K", "L", "M", "N", "O", "P",
     "Q", "R", "S", "T", "U", "V", "W", "X", "Y", "Z"}

IsWord(c) == c \in Digits \cup Letters \cup {"_"}

\* the first index from i on where s holds c, 0 when there is none
FindChar(s, c, i) ==
    LET I == {k \in i..Len(s) : s[k] = c}
    IN  IF I = {} THEN 0 ELSE CHOOSE k \in I : \A m \in I : k <= m

\* re.sub of (".*?") or ('.*?') by YELLOW \1 RESET: from each quote to the
\* next one, left to right; "." does not match a newline
RECURSIVE SubQuoted(_, _)
SubQuoted(s, q) ==
    LET i == FindChar(s, q, 1)
        j == IF i = 0 THEN 0 ELSE FindChar(s, q, i + 1)
    IN  IF j = 0 THEN s
        ELSE IF \E k \in (i + 1)..(j - 1) : s[k] = NL
        THEN SubSeq(s, 1, j - 1) \o SubQuoted(SubSeq(s, j, Len(s)), q)
        ELSE SubSeq(s, 1, i - 1) \o YELLOW \o SubSeq(s, i, j) \o RESET
             \o SubQuoted(SubSeq(s, j + 1, Len(s)), q)

\* the last index of the run of word characters that starts at i
RunEnd(s, i) ==
    CHOOSE j \in i..Len(s) :
        /\ \A k \in i..j : IsWord(s[k])
        /\ j = Len(s) \/ ~IsWord(s[j + 1])

\* what the pattern between the two \b takes: KW_PATTERN a keyword, (\d+) a
\* run of digits
Taken(pattern, w) ==
    IF pattern = "KW_PATTERN" THEN w \in KEYWORDS
    ELSE \A k \in 1..Len(w) : w[k] \in Digits

Color(pattern) == IF pattern = "KW_PATTERN" THEN BLUE ELSE CYAN

\* re.sub of \b(...)\b by color \1 RESET from index i on: both \b make a
\* match a whole run of word characters
RECURSIVE SubWords(_, _, _)
SubWords(s, i, pattern) ==
    IF i > Len(s) THEN <<>>
    ELSE IF ~IsWord(s[i]) THEN <<s[i]>> \o SubWords(s, i + 1, pattern)
    ELSE LET j == RunEnd(s, i)
             w == SubSeq(s, i, j)
         IN  (IF Taken(pattern, w) THEN Color(pattern) \o w \o RESET ELSE w)
             \o SubWords(s, j + 1, pattern)

\* strings, then keywords, then numbers
highlight_code_text(text) ==
    SubWords(SubWords(SubQuoted(SubQuoted(text, "\""), "'"),
                      1, "KW_PATTERN"),
             1, "NUMBERS")

\* the comment colored without its "#"
CommentPart_NoHash(rest) == GRAY \o rest \o RESET

\* comment_part = f"{GRAY}#{parts[1]}{RESET}"
CommentPart(rest) == GRAY \o <<"#">> \o rest \o RESET

\* parts = line.split("#", 1) when the line holds a "#"
highlight_code_line(l) ==
    LET h == FindChar(l, "#", 1)
    IN  IF h # 0
        THEN highlight_code_text(SubSeq(l, 1, h - 1))
             \o CommentPart(SubSeq(l, h + 1, Len(l)))
        ELSE highlight_code_text(l)

\* ------------------------------------------------------- network lines
\* One event of "for line in response.iter_lines()".  kind:
\*   "empty"    an empty keep-alive line
\*   "nondata"  a line that does not start with "data: "
\*   "done"     the line "data: [DONE]"
\*   "badjson"  a data line whose payload json.loads rejects
\*   "chunk"    a data line with a JSON payload; shape tells whether
\*              chunk["choices"][0].get("delta", {}).get(...) can be evaluated
\*   "eof"      the iterator is exhausted
\*   "neterror" iter_lines raises an Exception (connection dropped)
\*   "sigint"   KeyboardInterrupt is delivered while iterating
\* content is delta.content ("" when absent), usage is <<>> when the chunk
\* has no "usage" key and <<prompt_tokens, completion_tokens>> otherwise,
\* finish is finish_reason ("" when absent).
Ln(k, sh, c, u, fr) ==
    [kind |-> k, shape |-> sh, content |-> c, usage |-> u, finish |-> fr]

Plain(k) == Ln(k, "ok", <<>>, <<>>, "")

NoLine == Plain("none")

Shapes == {"ok", "nochoices", "emptychoices", "nulldelta"}
Finishes == {"", "stop", "length"}
Usages == {<<>>} \cup {<<p, p + 1>> : p \in 1..MaxTok}

Texts(lo, hi) == UNION {[1..n -> Alphabet] : n \in lo..hi}

\* --------------------------------------------- stream_completion, as a frame
\* The activation of one stream_completion call: its locals and the globals
\* it assigns.  exc is the exception raised by the loop body, "none" if none.
NewFrame(lpt, lct, lfr) ==
    [full_content |-> <<>>, in_code_block |-> FALSE, buffer |-> <<>>,
     current_block_content |-> <<>>, CODE_BLOCKS |-> <<>>,
     last_prompt_tokens |-> lpt, last_completion_tokens |-> lct,
     last_finish_reason |-> lfr, exc |-> "none"]

\* a closing marker that stores the captured block only when it holds text
CloseBlock_SkipEmpty(f) ==
    LET cbc == IF f.buffer # <<>>
               THEN Append(f.current_block_content, f.buffer)
               ELSE f.current_block_content
    IN  [f EXCEPT !.buffer = <<>>,
                  !.CODE_BLOCKS = IF cbc = <<>> THEN @ ELSE Append(@, Join(cbc)),
                  !.current_block_content = <<>>,
                  !.in_code_block = FALSE]

\* closing marker: flush the partial line, store the captured block
CloseBlock(f) ==
    LET cbc == IF f.buffer # <<>>
               THEN Append(f.current_block_content, f.buffer)
               ELSE f.current_block_content
    IN  [f EXCEPT !.buffer = <<>>,
                  !.CODE_BLOCKS = Append(@, Join(cbc)),
                  !.current_block_content = <<>>,
                  !.in_code_block = FALSE]

OpenBlock(f) == [f EXCEPT !.in_code_block = TRUE]

\* text of one part: buffered line by line inside a block, printed outside
PartText(f, part) ==
    IF part = <<>> THEN f
    ELSE IF f.in_code_block
    THEN LET t == TakeLines(f.current_block_content, f.buffer \o part)
         IN  [f EXCEPT !.current_block_content = t.cbc, !.buffer = t.buffer]
    ELSE f

RECURSIVE RawParts(_, _, _)
\* for i, part in enumerate(parts): every part but the first follows a marker
RawParts(f, parts, i) ==
    IF i > Len(parts) THEN f
    ELSE LET g == IF i > 1
                  THEN (IF f.in_code_block THEN CloseBlock(f) ELSE OpenBlock(f))
                  ELSE f
         IN  RawParts(PartText(g, parts[i]), parts, i + 1)

SetUsage(f, l) ==
    IF l.usage # <<>>
    THEN [f EXCEPT !.last_prompt_tokens = l.usage[1],
                   !.last_completion_tokens = l.usage[2]]
    ELSE f

SetFinish(f, l) == [f EXCEPT !.last_finish_reason = l.finish]

\* KeyError / IndexError / AttributeError of the delta lookup
ShapeError(f) == [f EXCEPT !.exc = "Exception"]

\* a handler that drops the tracker's state instead of only skipping the line
OnJSONDecodeError_Reset(f) ==
    [f EXCEPT !.buffer = <<>>, !.in_code_block = FALSE]

\* except json.JSONDecodeError: continue
OnJSONDecodeError(f) == f

RawChunk(f, l) ==
    IF l.shape # "ok" THEN ShapeError(f)
    ELSE IF l.content = <<>> THEN f
    ELSE SetFinish(SetUsage(
             RawParts([f EXCEPT !.full_content = @ \o l.content],
                      SplitFence(l.content), 1), l), l)

\* the rich path putting each delta in front of the text
RichChunk_Prepend(f, l) ==
    IF l.shape # "ok" THEN ShapeError(f)
    ELSE SetFinish(SetUsage([f EXCEPT !.full_content = l.content \o @], l), l)

RichChunk(f, l) ==
    IF l.shape # "ok" THEN ShapeError(f)
    ELSE SetFinish(SetUsage([f EXCEPT !.full_content = @ \o l.content], l), l)

\* the loop body for one line that iter_lines yields
LoopBody(rich, f, l) ==
    CASE l.kind \in {"empty", "nondata"} -> f
      [] l.kind = "badjson" -> OnJSONDecodeError(f)
      [] l.kind = "chunk" -> IF rich THEN RichChunk(f, l) ELSE RawChunk(f, l)
      [] l.kind = "neterror" -> [f EXCEPT !.exc = "Exception"]
      [] l.kind = "sigint" -> [f EXCEPT !.exc = "KeyboardInterrupt"]
      [] OTHER -> f

\* raw path, after the loop: flush remaining buffer
RawFlush(f) ==
    IF f.buffer # <<>> /\ f.in_code_block
    THEN LET cbc == Append(f.current_block_content, f.buffer)
         IN  [f EXCEPT !.current_block_content = cbc,
                       !.CODE_BLOCKS = Append(@, Join(cbc))]
    ELSE f

\* rich path, after the loop: CODE_BLOCKS = block_matches
RichExtract(f) == [f EXCEPT !.CODE_BLOCKS = FindAllBlocks(f.full_content)]

AfterLoop(rich, f) == IF rich THEN RichExtract(f) ELSE RawFlush(f)

\* how the call leaves the loop on an exception: the raw path catches
\* Exception and returns; everything else propagates to the caller
Caught(rich, f) == ~rich /\ f.exc = "Exception"

\* what the call hands to its caller: "returned" with (content, reason), or
\* "raised" with the exception
Outcome(rich, f) ==
    IF f.exc = "none"
    THEN [how |-> "returned", content |-> f.full_content,
          reason |-> f.last_finish_reason, exc |-> "none"]
    ELSE IF Caught(rich, f)
    THEN [how |-> "returned", content |-> f.full_content,
          reason |-> "error", exc |-> "none"]
    ELSE [how |-> "raised", content |-> <<>>, reason |-> "", exc |-> f.exc]

\* a request failure reported as a cut-off answer instead of an error
RequestErrorResult_Length ==
    [how |-> "returned", content |-> <<>>, reason |-> "length", exc |-> "none"]

\* return "", "error" of the three except clauses around requests.post
RequestErrorResult ==
    [how |-> "returned", content |-> <<>>, reason |-> "error", exc |-> "none"]

\* ------------------------------------------------------------------ state
VARIABLES
    RICH_AVAILABLE, RENDER_MARKDOWN,      \* rendering configuration
    SEC_MODE, DEPTH, FORMAT, PHASE,       \* mode state
    ENGAGEMENT, MEMORY,                   \* engagement state
    shelf,                                \* the other engagement's directory
    messages, saved,                      \* conversation, and messages.json
    CODE_BLOCKS,
    last_prompt_tokens, last_completion_tokens, last_finish_reason,
    pc, site,                             \* position of the session loop
    prompt_text, ephemeral_prompt, msgs_to_send,
    command, report,                      \* the command read, and what it printed
    code_line, highlighted,               \* a line of code, as printed
    content, finish_reason, count,        \* locals of the session loop
    full_content, in_code_block, buffer,
    current_block_content, line,          \* locals of stream_completion
    request,                              \* how requests.post of this call ended
    result,                               \* what the call hands to its caller
    twin,                                 \* the other rendering path, same lines
    script,                               \* lines a scripted response still holds
    received                              \* weight the session was fed so far

globals == <<CODE_BLOCKS, last_prompt_tokens, last_completion_tokens,
             last_finish_reason>>
locals == <<full_content, in_code_block, buffer, current_block_content>>
config == <<RICH_AVAILABLE, RENDER_MARKDOWN>>
modes == <<SEC_MODE, DEPTH, FORMAT, PHASE>>
settings == <<modes, ENGAGEMENT, MEMORY, shelf>>
terminal == <<command, report>>
highlighter == <<code_line, highlighted>>
loopvars == <<prompt_text, ephemeral_prompt, msgs_to_send, content,
              finish_reason, count>>
vars == <<RICH_AVAILABLE, RENDER_MARKDOWN, SEC_MODE, DEPTH, FORMAT, PHASE,
          ENGAGEMENT, MEMORY, shelf,
          command, report, code_line, highlighted, messages, saved, CODE_BLOCKS,
          last_prompt_tokens, last_completion_tokens, last_finish_reason,
          pc, site, prompt_text, ephemeral_prompt, msgs_to_send, content,
          finish_reason, count, full_content, in_code_block, buffer,
          current_block_content, line, request, result, twin, script,
          received>>

\* if RICH_AVAILABLE and RENDER_MARKDOWN
Rich == RICH_AVAILABLE /\ RENDER_MARKDOWN

Msg(r, c) == [role |-> r, content |-> c]

\* reset_context(): one system message
\* the prompt tables: the keys are the source's, each text is cut down to a
\* word that tells the entries apart; FORMAT_PROMPTS["raw"] is the empty string
MODE_PROMPTS == [lab |-> "mode lab", recon |-> "mode recon",
                 defence |-> "mode defence", exploit |-> "mode exploit",
                 normal |-> "mode normal"]
PHASE_PROMPTS == [recon |-> "phase recon", enum |-> "phase enum",
                  exploit |-> "phase exploit", report |-> "phase report",
                  general |-> "phase general"]
DEPTH_PROMPTS == [quick |-> "depth quick", normal |-> "depth normal",
                  deep |-> "depth deep"]
FORMAT_PROMPTS == [raw |-> "", bullets |-> "format bullets",
                   checklist |-> "format checklist",
                   report |-> "format report", commands |-> "format commands"]

\* the state handle_command's setting branches work on, and the exception
\* the branch lets through
Settings(mode, phase, depth, format, eng, mem, msgs, file, other) ==
    [SEC_MODE |-> mode, PHASE |-> phase, DEPTH |-> depth, FORMAT |-> format,
     ENGAGEMENT |-> eng, MEMORY |-> mem, messages |-> msgs, saved |-> file,
     shelf |-> other, exc |-> "none"]

\* system_prompt() looks each setting up in its table: a KeyError otherwise
Evaluable(st) ==
    /\ st.SEC_MODE \in DOMAIN MODE_PROMPTS
    /\ st.PHASE \in DOMAIN PHASE_PROMPTS
    /\ st.DEPTH \in DOMAIN DEPTH_PROMPTS
    /\ st.FORMAT \in DOMAIN FORMAT_PROMPTS

Filled(part) == part # ""

\* system_prompt(): the parts that are not empty, in order, and the known
\* facts when MEMORY holds any
system_prompt(st) ==
    SelectSeq(<<"base", MODE_PROMPTS[st.SEC_MODE], PHASE_PROMPTS[st.PHASE],
                DEPTH_PROMPTS[st.DEPTH], FORMAT_PROMPTS[st.FORMAT],
                st.ENGAGEMENT>>, Filled)
    \o (IF st.MEMORY # <<>> THEN <<"Known facts">> \o st.MEMORY ELSE <<>>)

\* reset_context(), with messages kept when system_prompt() raises
reset_context(st) ==
    IF Evaluable(st)
    THEN [st EXCEPT !.messages = <<Msg("system", system_prompt(st))>>]
    ELSE [st EXCEPT !.exc = "KeyError"]

\* save_engagement(): messages.json; memory.json always holds MEMORY
save_engagement(st) == [st EXCEPT !.saved = st.messages]

\* ENGAGEMENT = args[0]; load_engagement(): the directory of the engagement
\* named, the one just saved when the name does not change
load_engagement(st, eng) ==
    IF eng = st.ENGAGEMENT
    THEN [st EXCEPT !.messages = st.saved]
    ELSE [st EXCEPT !.ENGAGEMENT = eng,
                    !.messages = st.shelf.messages,
                    !.MEMORY = st.shelf.memory,
                    !.saved = st.shelf.messages,
                    !.shelf = [messages |-> st.saved, memory |-> st.MEMORY]]

\* the globals as the module sets them
Defaults(file, other) ==
    Settings("lab", "recon", "normal", "raw", "default", <<>>, <<>>, file,
             other)

\* messages after banner(); load_engagement(); reset_context()
SystemMessage ==
    reset_context(load_engagement(Defaults(<<>>, <<>>), "default")).messages[1]

\* a conversation and a fact an earlier session left in engagements/acme
Stored ==
    [messages |-> <<Msg("system", <<"base", "acme">>), Msg("user", <<"q">>),
                    Msg("assistant", <<"a">>)>>,
     memory |-> <<"fact">>]

\* cont_msg of the auto-continue loop
ContMsg == Msg("user", <<"Continue exactly where you stopped. Do not repeat.">>)

\* no command was read; nothing was printed
NoArg == [kind |-> "none", val |-> 0]
NoCommand == [cmd |-> "", file |-> "", n |-> NoArg]
NoReport == [out |-> "", n |-> 0, block |-> <<>>]

NoResult == [how |-> "none", content |-> <<>>, reason |-> "", exc |-> "none"]

\* the running call, as a frame
Frame ==
    [full_content |-> full_content, in_code_block |-> in_code_block,
     buffer |-> buffer, current_block_content |-> current_block_content,
     CODE_BLOCKS |-> CODE_BLOCKS,
     last_prompt_tokens |-> last_prompt_tokens,
     last_completion_tokens |-> last_completion_tokens,
     last_finish_reason |-> last_finish_reason, exc |-> "none"]

SetGlobals(f) ==
    /\ CODE_BLOCKS' = f.CODE_BLOCKS
    /\ last_prompt_tokens' = f.last_prompt_tokens
    /\ last_completion_tokens' = f.last_completion_tokens
    /\ last_finish_reason' = f.last_finish_reason

SetLocals(f) ==
    /\ full_content' = f.full_content
    /\ in_code_block' = f.in_code_block
    /\ buffer' = f.buffer
    /\ current_block_content' = f.current_block_content

\* the locals of a call that is not running
NoLocals ==
    /\ full_content' = <<>>
    /\ in_code_block' = FALSE
    /\ buffer' = <<>>
    /\ current_block_content' = <<>>

\* the final state of a call: its outcome and the globals it leaves
Final(rich, f) ==
    [result |-> Outcome(rich, f), CODE_BLOCKS |-> f.CODE_BLOCKS,
     last_prompt_tokens |-> f.last_prompt_tokens,
     last_completion_tokens |-> f.last_completion_tokens]

NoTwin == [result |-> NoResult, CODE_BLOCKS |-> <<>>,
           last_prompt_tokens |-> 0, last_completion_tokens |-> 0]

\* the state after construction, but for the rendering library found, the
\* position of the program and the highlighter
Idle ==
    /\ RENDER_MARKDOWN = TRUE
    /\ SEC_MODE = "lab"
    /\ DEPTH = "normal"
    /\ FORMAT = "raw"
    /\ PHASE = "recon"
    /\ ENGAGEMENT = "default"
    /\ MEMORY = <<>>
    /\ shelf = Stored
    /\ command = NoCommand
    /\ report = NoReport
    /\ messages = <<SystemMessage>>
    /\ saved = <<>>
    /\ CODE_BLOCKS = <<>>
    /\ last_prompt_tokens = 0
    /\ last_completion_tokens = 0
    /\ last_finish_reason = ""
    /\ site = "first"
    /\ prompt_text = ""
    /\ ephemeral_prompt = <<>>
    /\ msgs_to_send = <<>>
    /\ content = <<>>
    /\ finish_reason = ""
    /\ count = 0
    /\ full_content = <<>>
    /\ in_code_block = FALSE
    /\ buffer = <<>>
    /\ current_block_content = <<>>
    /\ line = NoLine
    /\ request = "none"
    /\ result = NoResult
    /\ twin = NoTwin
    /\ script = <<>>
    /\ received = 0

Init ==
    /\ Idle
    /\ RICH_AVAILABLE \in BOOLEAN
    /\ pc = "input"
    /\ code_line = <<>>
    /\ highlighted = <<>>

\* --------------------------------------------------------- server responses
Content(c) == Ln("chunk", "ok", c, <<>>, "")

\* the scripted response of the specification's fenced-code scenario
Scenario ==
    << Content(<<"H", "e", "r", "e", " ", "i", "s", " ">>),
      Content(<<"c", "o", "d", "e", ":", NL, BT, BT, BT, "p", "y">>),
      Content(<<NL, "x", " ", "=", " ", "1", NL>>),
      Content(<<BT, BT, BT, NL, "d", "o", "n", "e">>),
      Plain("done") >>

\* a scripted response that opens a fence and closes it in the next delta,
\* and ends without the sentinel
EmptyFence ==
    << Content(<<BT, BT, BT>>), Content(<<BT, BT, BT>>), Plain("eof") >>

\* the weight of a line
Weight(l) == Len(l.content) + (IF l.usage # <<>> THEN 1 ELSE 0)
                            + (IF l.finish = "length" THEN 2
                               ELSE IF l.finish # "" THEN 1 ELSE 0)

\* lines the server may send next: the head of a scripted response, or any
\* line whose weight fits what is left of MaxInput
Room == IF MaxInput - received < MaxDelta THEN MaxInput - received ELSE MaxDelta

BodyLines ==
    IF script # <<>>
    THEN {l \in {Head(script)} : l.kind = "chunk"}
    ELSE {Plain("empty"), Plain("nondata"), Plain("badjson")}
         \cup {Ln("chunk", sh, <<>>, <<>>, "") : sh \in Shapes \ {"ok"}}
         \cup {l \in {Ln("chunk", "ok", c, u, fr) :
                        c \in Texts(0, Room), u \in Usages, fr \in Finishes} :
                  received + Weight(l) <= MaxInput}

EndLines ==
    IF script # <<>>
    THEN {l \in {Head(script)} : l.kind \in {"done", "eof"}}
    ELSE {Plain("done"), Plain("eof")}

\* the sentinel is read like any other line
Breaks_Never(l) == FALSE

\* if data == "[DONE]": break
Breaks(l) == l.kind = "done"

\* lines after which the loop runs no more: the sentinel, or no line at all
LastLines == {l \in EndLines : l.kind = "eof" \/ Breaks(l)}

FaultLines == IF script # <<>> THEN {} ELSE {Plain("neterror"), Plain("sigint")}

\* -------------------------------------------------------- handle_command
\* args of a command: a block number is absent, a word that is no number, or
\* an integer
Word == [kind |-> "word", val |-> 0]
Num(k) == [kind |-> "int", val |-> k]

\* a Path that exists (a file for :diff, a template for :load) or does not
Exists(path) == path = "file"

\* sys.platform of the host
Platforms == {"darwin", "linux"}

\* the template text :load appends
TemplateMsg == Msg("user", <<"template">>)

\* the block number taken as a list index without the shift by one
BlockIndex_NoShift(a, blocks) ==
    IF a.kind = "int" THEN a.val ELSE Len(blocks) - 1

\* int(arg) - 1 if the argument is given else len(CODE_BLOCKS) - 1
BlockIndex(a, blocks) == IF a.kind = "int" THEN a.val - 1 ELSE Len(blocks) - 1

\* 0 <= idx < len(CODE_BLOCKS)
InRange(idx, blocks) == 0 <= idx /\ idx < Len(blocks)

Printed(o) == [out |-> o, n |-> 0, block |-> <<>>]

\* the block a command works on: CODE_BLOCKS[idx]
Selected(o, idx, blocks) ==
    [out |-> o, n |-> idx + 1, block |-> blocks[idx + 1]]

\* what handle_command gives back: its return value (or the exception it
\* lets through), messages as it leaves them, and what it printed
Handled(r, msgs, rep) == [ret |-> r, exc |-> "none", messages |-> msgs,
                          report |-> rep]

\* cmd == "diff" and args
Diff(c, msgs, blocks) ==
    IF c.n.kind = "word"
    THEN [ret |-> "None", exc |-> "ValueError", messages |-> msgs,
          report |-> Printed("command_error")]
    ELSE IF ~Exists(c.file)
    THEN Handled("True", msgs, Printed("file_not_found"))
    ELSE IF blocks = <<>> THEN Handled("True", msgs, Printed("no_blocks"))
    ELSE IF InRange(BlockIndex(c.n, blocks), blocks)
    THEN Handled("True", msgs,
                 Selected("diffed", BlockIndex(c.n, blocks), blocks))
    ELSE Handled("True", msgs, Printed("not_found"))

\* cmd == "copy"
Copy(c, msgs, blocks, platform) ==
    IF blocks = <<>> THEN Handled("True", msgs, Printed("no_blocks"))
    ELSE IF c.n.kind = "word" THEN Handled("True", msgs, Printed("usage"))
    ELSE IF InRange(BlockIndex(c.n, blocks), blocks)
    THEN Handled("True", msgs,
                 Selected(IF platform = "darwin" THEN "copied"
                          ELSE "unsupported",
                          BlockIndex(c.n, blocks), blocks))
    ELSE Handled("True", msgs, Printed("not_found"))

\* cmd == "load", with a template name
Load(c, msgs) ==
    IF Exists(c.file)
    THEN Handled("GENERATE", Append(msgs, TemplateMsg), Printed("loaded"))
    ELSE Handled("True", msgs, Printed("template_not_found"))

\* cmd == "continue"
Continue(msgs) == Handled("GENERATE", Append(msgs, ContMsg), Printed(""))

\* no branch of handle_command takes the command
Unknown(msgs) == Handled("True", msgs, Printed("unknown_command"))

HandleCommand(c, msgs, blocks, platform) ==
    IF c.cmd = "diff" THEN Diff(c, msgs, blocks)
    ELSE IF c.cmd = "copy" THEN Copy(c, msgs, blocks, platform)
    ELSE IF c.cmd = "load" THEN Load(c, msgs)
    ELSE IF c.cmd = "continue" THEN Continue(msgs)
    ELSE Unknown(msgs)

\* the truth value Python gives a return value
Truthy(v) == v \notin {"False", "None", ""}

\* block numbers a user may type: none, a word, and the integers around the
\* range of the list
BlockArgs(blocks) ==
    {NoArg, Word} \cup {Num(k) : k \in (0 - 1)..(Len(blocks) + 1)}

\* the command lines the session reads
Commands(blocks) ==
    {[cmd |-> "copy", file |-> "", n |-> a] : a \in BlockArgs(blocks)}
    \cup {[cmd |-> "diff", file |-> f, n |-> a] :
             f \in {"file", "missing"}, a \in BlockArgs(blocks)}
    \cup {[cmd |-> "load", file |-> f, n |-> NoArg] : f \in {"file", "missing"}}
    \cup {[cmd |-> "continue", file |-> "", n |-> NoArg],
          [cmd |-> "once", file |-> "", n |-> NoArg]}

\* the weight of a command line: as much as an ephemeral prompt when it adds
\* a message, as much as an ordinary prompt otherwise
Cost(c) == IF c.cmd \in {"load", "continue"} THEN 4 ELSE 2

\* ---------------------------------------------------------- session loop
\* prompt_text = input(...).strip(): an empty line is read again
ReadBlank ==
    /\ pc = "input"
    /\ command' = NoCommand
    /\ report' = NoReport
    /\ prompt_text' = ""
    /\ UNCHANGED <<config, settings, highlighter,
                   messages, saved, globals, pc, site,
                   ephemeral_prompt, msgs_to_send, content, finish_reason,
                   count, locals, line, request, result, twin, script,
                   received>>

\* ":q", "quit", "exit", or EOFError / KeyboardInterrupt at the prompt
ReadQuit ==
    /\ pc = "input"
    /\ command' = NoCommand
    /\ report' = NoReport
    /\ \E p \in {"quit", "EOF"} : prompt_text' = p
    /\ pc' = "exit"
    /\ UNCHANGED <<config, settings, highlighter,
                   messages, saved, globals, site,
                   ephemeral_prompt,
                   msgs_to_send, content, finish_reason, count, locals, line,
                   request, result, twin, script, received>>

\* an ordinary prompt: appended to messages, msgs_to_send is messages itself
ReadPrompt ==
    /\ pc = "input"
    /\ command' = NoCommand
    /\ report' = NoReport
    /\ received + 2 <= MaxInput
    /\ prompt_text' = "hello"
    /\ ephemeral_prompt' = <<>>
    /\ messages' = Append(messages, Msg("user", <<"hello">>))
    /\ msgs_to_send' = messages'
    /\ pc' = "call"
    /\ site' = "first"
    /\ received' = received + 2
    /\ UNCHANGED <<config, settings, highlighter,
                   saved, globals, content, finish_reason,
                   count,
                   locals, line, request, result, twin, script>>

\* "! <prompt>": the prompt goes to a copy of messages only
ReadEphemeral ==
    /\ pc = "input"
    /\ command' = NoCommand
    /\ report' = NoReport
    /\ received + 4 <= MaxInput
    /\ prompt_text' = "! hello"
    /\ ephemeral_prompt' = <<"hello">>
    /\ msgs_to_send' = Append(messages, Msg("user", <<"hello">>))
    /\ pc' = "call"
    /\ site' = "first"
    /\ received' = received + 4
    /\ UNCHANGED <<config, settings, highlighter,
                   messages, saved, globals, content,
                   finish_reason,
                   count, locals, line, request, result, twin, script>>

\* "!" alone: the ephemeral prompt is empty, which Python takes as false, so
\* nothing is appended before the call and the reply is kept like any other
ReadBang ==
    /\ pc = "input"
    /\ command' = NoCommand
    /\ report' = NoReport
    /\ received + 4 <= MaxInput
    /\ prompt_text' = "!"
    /\ ephemeral_prompt' = <<>>
    /\ msgs_to_send' = messages
    /\ pc' = "call"
    /\ site' = "first"
    /\ received' = received + 4
    /\ UNCHANGED <<config, settings, highlighter,
                   messages, saved, globals, content,
                   finish_reason, count, locals, line, request, result, twin,
                   script>>

\* the iteration goes on to the next input()
NextPrompt(msgs) ==
    /\ messages' = msgs
    /\ pc' = "input"
    /\ UNCHANGED <<site, ephemeral_prompt, msgs_to_send>>

\* the iteration goes on to stream_completion(msgs_to_send)
Generate(msgs, eph, m2s) ==
    /\ messages' = msgs
    /\ ephemeral_prompt' = eph
    /\ msgs_to_send' = m2s
    /\ pc' = "call"
    /\ site' = "first"

\* the lines after the first handle_command, for a prompt that starts with
\* ":": a second handle_command unless the prompt is ":once <prompt>"
AfterCommand(c, msgs, platform) ==
    IF c.cmd = "once"
    THEN Generate(msgs, <<"hello">>, Append(msgs, Msg("user", <<"hello">>)))
    ELSE LET res == HandleCommand(c, msgs, CODE_BLOCKS, platform)
         IN  IF res.exc # "none" \/ res.ret = "True"
             THEN NextPrompt(res.messages)
             ELSE IF res.ret = "GENERATE" \/ c.cmd = "continue"
             THEN Generate(res.messages, <<>>, res.messages)
             ELSE Generate(Append(res.messages, Msg("user", <<c.cmd>>)), <<>>,
                           Append(res.messages, Msg("user", <<c.cmd>>)))

\* a prompt that starts with ":": if handle_command(prompt_text): continue,
\* and except Exception: continue
ReadCommand ==
    /\ pc = "input"
    /\ \E c \in Commands(CODE_BLOCKS), platform \in Platforms :
         LET res == HandleCommand(c, messages, CODE_BLOCKS, platform)
         IN  /\ received + Cost(c) <= MaxInput
             /\ received' = received + Cost(c)
             /\ prompt_text' = c.cmd
             /\ command' = c
             /\ report' = res.report
             /\ IF res.exc # "none" \/ Truthy(res.ret)
                THEN NextPrompt(res.messages)
                ELSE AfterCommand(c, res.messages, platform)
    /\ UNCHANGED <<config, settings, highlighter,
                   saved, globals, content, finish_reason,
                   count, locals, line, request, result, twin, script>>

\* how the summary request of :compress ends: requests.post, raise_for_status
\* or the lookup of the content raises; the content is null; or it is a text
Replies == {[how |-> "raises", summary |-> <<>>],
            [how |-> "null", summary |-> <<"None">>],
            [how |-> "text", summary |-> <<"s">>]}

NoReply == [how |-> "none", summary |-> <<>>]

\* a :compress that keeps the summary and the last message only
Compress_DropsExchange(msgs, reply) ==
    IF Len(msgs) < 5 THEN Handled("True", msgs, Printed("not_enough"))
    ELSE IF reply.how = "raises"
    THEN Handled("True", msgs, Printed("compression_failed"))
    ELSE Handled("True",
                 <<msgs[1],
                   Msg("system", <<"PREVIOUS SESSION SUMMARY">> \o reply.summary),
                   msgs[Len(msgs)]>>,
                 Printed(IF reply.how = "null" THEN "compression_failed"
                         ELSE "compressed"))

\* cmd == "compress": messages is assigned before the two prints, and the
\* second print, summary[:100], raises on a null summary
Compress(msgs, reply) ==
    IF Len(msgs) < 5 THEN Handled("True", msgs, Printed("not_enough"))
    ELSE IF reply.how = "raises"
    THEN Handled("True", msgs, Printed("compression_failed"))
    ELSE Handled("True",
                 <<msgs[1],
                   Msg("system", <<"PREVIOUS SESSION SUMMARY">> \o reply.summary)>>
                 \o SubSeq(msgs, Len(msgs) - 1, Len(msgs)),
                 Printed(IF reply.how = "null" THEN "compression_failed"
                         ELSE "compressed"))

\* the prompt ":compress": handle_command returns True
ReadCompress ==
    /\ pc = "input"
    /\ received + 2 <= MaxInput
    /\ received' = received + 2
    /\ \E reply \in IF Len(messages) < 5 THEN {NoReply} ELSE Replies :
         LET res == Compress(messages, reply)
         IN  /\ prompt_text' = "compress"
             /\ command' = [cmd |-> "compress", summary_request |-> reply]
             /\ report' = res.report
             /\ NextPrompt(res.messages)
    /\ UNCHANGED <<config, settings, highlighter,
                   saved, globals, content, finish_reason,
                   count, locals, line, request, result, twin, script>>

\* a setting command and its first argument
Setting(cmd, arg) == [cmd |-> cmd, arg |-> arg]

\* the assignments of a setting branch, before its reset_context()
Assign(c, st) ==
    CASE c.cmd \in DOMAIN MODE_PROMPTS ->
           [st EXCEPT !.SEC_MODE = c.cmd,
                      !.PHASE = IF c.cmd = "exploit" THEN "exploit"
                                ELSE IF c.cmd = "normal" THEN "general"
                                ELSE @]
      [] c.cmd = "phase" -> [st EXCEPT !.PHASE = c.arg]
      [] c.cmd = "depth" -> [st EXCEPT !.DEPTH = c.arg]
      [] c.cmd = "format" -> [st EXCEPT !.FORMAT = c.arg]
      [] c.cmd = "engage" -> load_engagement(save_engagement(st), c.arg)
      [] c.cmd = "remember" ->
           save_engagement([st EXCEPT !.MEMORY = Append(@, c.arg)])
      [] OTHER -> st

\* handle_command for a mode, :phase, :depth, :format, :engage, :remember
\* or :reset: the assignments, then reset_context(), then a print
HandleSetting(c, st) == reset_context(Assign(c, st))

\* what the branch prints, or the except of the session loop for it
SettingReport(c, st) ==
    IF st.exc # "none" THEN Printed("command_error")
    ELSE IF c.cmd = "remember" THEN Printed("remembered")
    ELSE IF c.cmd = "reset" THEN Printed("context reset")
    ELSE Printed("header")

Engagements == {"default", "acme"}

\* the setting commands the session is fed
SettingCommands ==
    {Setting(m, "") : m \in DOMAIN MODE_PROMPTS}
    \cup {Setting("phase", v) : v \in {"enum", "bogus"}}
    \cup {Setting("depth", v) : v \in {"deep", "bogus"}}
    \cup {Setting("format", v) : v \in {"report", "bogus"}}
    \cup {Setting("engage", v) : v \in Engagements}
    \cup {Setting("remember", "fact"), Setting("reset", "")}

SettingCost(c) == IF c.cmd = "reset" THEN 1 ELSE 3

\* a prompt that is a setting command: handle_command returns True or
\* raises, and the session loop goes on to the next input() either way
ReadSetting ==
    /\ pc = "input"
    /\ \E c \in SettingCommands :
         LET st == HandleSetting(c, Settings(SEC_MODE, PHASE, DEPTH, FORMAT,
                                             ENGAGEMENT, MEMORY, messages,
                                             saved, shelf))
         IN  /\ received + SettingCost(c) <= MaxInput
             /\ received' = received + SettingCost(c)
             /\ prompt_text' = c.cmd
             /\ command' = c
             /\ report' = SettingReport(c, st)
             /\ SEC_MODE' = st.SEC_MODE
             /\ PHASE' = st.PHASE
             /\ DEPTH' = st.DEPTH
             /\ FORMAT' = st.FORMAT
             /\ ENGAGEMENT' = st.ENGAGEMENT
             /\ MEMORY' = st.MEMORY
             /\ saved' = st.saved
             /\ shelf' = st.shelf
             /\ NextPrompt(st.messages)
    /\ UNCHANGED <<config, highlighter, globals, content, finish_reason,
                   count, locals, line, request, result, twin, script>>

\* ------------------------------------------------------ stream_completion
\* requests.post fails: return "", "error" before anything else is assigned
PostFails ==
    /\ pc = "call"
    /\ request' \in {"Timeout", "ConnectionError", "RequestException"}
    /\ result' = RequestErrorResult
    /\ twin' = [result |-> RequestErrorResult, CODE_BLOCKS |-> CODE_BLOCKS,
                last_prompt_tokens |-> last_prompt_tokens,
                last_completion_tokens |-> last_completion_tokens]
    /\ pc' = "ret"
    /\ UNCHANGED <<config, settings, highlighter,
                   highlighter, terminal,
                   messages, saved, globals, site, loopvars, locals,
                   line, script, received>>

\* requests.post succeeds: full_content = "", CODE_BLOCKS = [], ...
PostOk ==
    /\ pc = "call"
    /\ LET f == NewFrame(last_prompt_tokens, last_completion_tokens,
                         last_finish_reason)
       IN  /\ SetGlobals(f)
           /\ SetLocals(f)
           /\ twin' = f
    /\ line' = NoLine
    /\ request' = "ok"
    /\ result' = NoResult
    /\ script' \in IF site = "first" THEN {<<>>, Scenario, EmptyFence}
                  ELSE {<<>>}
    /\ pc' = "iter"
    /\ UNCHANGED <<config, settings, highlighter,
                   highlighter, terminal,
                   messages, saved, site, loopvars, received>>

\* the call leaves stream_completion with frame f (twin: tw)
Leave(f, tw) ==
    /\ SetGlobals(f)
    /\ NoLocals
    /\ result' = Outcome(Rich, f)
    /\ twin' = Final(~Rich, tw)
    /\ pc' = IF result'.how = "returned" THEN "ret" ELSE "raise"

\* one line is read and the loop body runs on it
IterLine ==
    /\ pc = "iter"
    /\ \E l \in BodyLines \cup (EndLines \ LastLines) :
         LET f  == LoopBody(Rich, Frame, l)
             tw == LoopBody(~Rich, twin, l)
         IN  /\ line' = l
             /\ received' = IF script # <<>> THEN received
                            ELSE received + Weight(l)
             /\ IF f.exc = "none"
                THEN /\ SetGlobals(f)
                     /\ SetLocals(f)
                     /\ twin' = tw
                     /\ UNCHANGED <<pc, result>>
                ELSE Leave(f, tw)
    /\ script' = IF script # <<>> THEN Tail(script) ELSE script
    /\ UNCHANGED <<config, settings, highlighter,
                   highlighter, terminal,
                   messages, saved, site, loopvars, request>>

\* the end sentinel is read, or the lines are exhausted: the code after the
\* loop runs and the call returns
IterEnd ==
    /\ pc = "iter"
    /\ \E l \in LastLines :
         /\ line' = l
         /\ Leave(AfterLoop(Rich, Frame), AfterLoop(~Rich, twin))
    /\ script' = <<>>
    /\ UNCHANGED <<config, settings, highlighter,
                   highlighter, terminal,
                   messages, saved, site, loopvars, request,
                   received>>

\* iter_lines raises, or the user presses Ctrl-C, while the loop runs
IterFault ==
    /\ pc = "iter"
    /\ \E l \in FaultLines :
         /\ line' = l
         /\ Leave(LoopBody(Rich, Frame, l), LoopBody(~Rich, twin, l))
    /\ UNCHANGED <<config, settings, highlighter,
                   highlighter, terminal,
                   messages, saved, site, loopvars, request, script,
                   received>>

\* ------------------------------------------- session loop, after the call
\* a loop that allows one round more than the limit
Continues_OneMore(fr, cnt) == fr = "length" /\ cnt <= AUTO_CONTINUE_LIMIT

\* while finish_reason == "length" and count < AUTO_CONTINUE_LIMIT
Continues(fr, cnt) == fr = "length" /\ cnt < AUTO_CONTINUE_LIMIT

\* the reply goes to messages whether the request is ephemeral or not
History_Always(eph, msgs, c) == Append(msgs, Msg("assistant", c))

\* if not ephemeral_prompt: messages.append({"role": "assistant", ...})
History(eph, msgs, c) ==
    IF eph # <<>> THEN msgs ELSE Append(msgs, Msg("assistant", c))

\* while finish_reason == "length" and count < AUTO_CONTINUE_LIMIT: ... ;
\* if not ephemeral_prompt: save_engagement()
\* msgs / m2s / cnt are messages, msgs_to_send and count on entry; c is the
\* value of content, fr the finish reason just returned
\* When the iteration ends the loop's locals are dead (each is assigned
\* again before it is read), so they go back to their initial values.
AutoContinue(msgs, m2s, cnt, c, fr) ==
    IF Continues(fr, cnt)
    THEN /\ count' = cnt + 1
         /\ content' = c
         /\ finish_reason' = fr
         /\ UNCHANGED ephemeral_prompt
         /\ IF ephemeral_prompt # <<>>
            THEN /\ msgs_to_send' =
                        m2s \o <<Msg("assistant", c), ContMsg>>
                 /\ messages' = msgs
            ELSE /\ messages' = Append(msgs, ContMsg)
                 /\ msgs_to_send' = messages'
         /\ pc' = "call"
         /\ site' = "cont"
         /\ UNCHANGED saved
    ELSE /\ messages' = msgs
         /\ saved' = IF ephemeral_prompt # <<>> THEN saved ELSE msgs
         /\ pc' = "input"
         /\ site' = "first"
         /\ count' = 0
         /\ content' = <<>>
         /\ finish_reason' = ""
         /\ ephemeral_prompt' = <<>>
         /\ msgs_to_send' = <<>>

\* content, finish_reason = stream_completion(msgs_to_send), first call
ReturnFirst ==
    /\ pc = "ret"
    /\ site = "first"
    /\ AutoContinue(History(ephemeral_prompt, messages, result.content),
                    msgs_to_send, 0, result.content, result.reason)
    /\ result' = NoResult
    /\ twin' = NoTwin
    /\ line' = NoLine
    /\ request' = "none"
    /\ UNCHANGED <<config, settings, highlighter,
                   highlighter, terminal,
                   globals, prompt_text, locals, script, received>>

\* the loop appends the text gathered so far, not the chunk just returned
ReturnCont_Accumulates ==
    /\ pc = "ret"
    /\ site = "cont"
    /\ AutoContinue(History(ephemeral_prompt, messages,
                            content \o result.content),
                    IF ephemeral_prompt # <<>>
                    THEN Append(msgs_to_send, Msg("assistant", result.content))
                    ELSE msgs_to_send,
                    count,
                    IF ephemeral_prompt # <<>> THEN result.content ELSE content,
                    result.reason)
    /\ result' = NoResult
    /\ twin' = NoTwin
    /\ line' = NoLine
    /\ request' = "none"
    /\ UNCHANGED <<config, settings, highlighter,
                   highlighter, terminal,
                   globals, prompt_text, locals, script, received>>

\* content_chunk, finish_reason = stream_completion(...), inside the loop
ReturnCont ==
    /\ pc = "ret"
    /\ site = "cont"
    /\ AutoContinue(History(ephemeral_prompt, messages, result.content),
                    IF ephemeral_prompt # <<>>
                    THEN Append(msgs_to_send, Msg("assistant", result.content))
                    ELSE msgs_to_send,
                    count,
                    IF ephemeral_prompt # <<>> THEN result.content ELSE content,
                    result.reason)
    /\ result' = NoResult
    /\ twin' = NoTwin
    /\ line' = NoLine
    /\ request' = "none"
    /\ UNCHANGED <<config, settings, highlighter,
                   highlighter, terminal,
                   globals, prompt_text, locals, script, received>>

\* except KeyboardInterrupt: / except Exception: of the session loop
Except ==
    /\ pc = "raise"
    /\ result.exc \in {"KeyboardInterrupt", "Exception"}
    /\ pc' = "input"
    /\ site' = "first"
    /\ count' = 0
    /\ content' = <<>>
    /\ finish_reason' = ""
    /\ ephemeral_prompt' = <<>>
    /\ msgs_to_send' = <<>>
    /\ result' = NoResult
    /\ twin' = NoTwin
    /\ line' = NoLine
    /\ request' = "none"
    /\ UNCHANGED <<config, settings, highlighter,
                   highlighter, terminal,
                   messages, saved, globals, prompt_text, locals,
                   script, received>>

Next ==
    \/ ReadBlank
    \/ ReadQuit
    \/ ReadPrompt
    \/ ReadEphemeral
    \/ ReadBang
    \/ ReadCommand
    \/ ReadCompress
    \/ ReadSetting
    \/ PostFails
    \/ PostOk
    \/ IterLine
    \/ IterEnd
    \/ IterFault
    \/ ReturnFirst
    \/ ReturnCont
    \/ Except

Spec == Init /\ [][Next]_vars

\* ------------------------------------------- the highlighter on its own
\* characters of a line of code: both quotes, the comment sign, a digit and
\* the letters of the keyword "if"
CodeAlphabet == {"\"", "'", "#", "1", "i", "f"}

CodeLines == UNION {[1..n -> CodeAlphabet] : n \in 0..MaxLine}

\* the raw path is about to print a line of code
HighlightInit ==
    /\ Idle
    /\ RICH_AVAILABLE = FALSE
    /\ pc = "highlight"
    /\ code_line \in CodeLines
    /\ highlighted = <<>>

\* print(highlight_code_line(line_content) ...)
HighlightLine ==
    /\ pc = "highlight"
    /\ highlighted' = highlight_code_line(code_line)
    /\ pc' = "highlighted"
    /\ UNCHANGED <<config, settings, terminal, code_line, messages, saved,
                   globals, site, loopvars, locals, line, request, result,
                   twin, script, received>>

HighlightNext == HighlightLine

HighlightSpec == HighlightInit /\ [][HighlightNext]_vars

\* ------------------------------------------------- notions of the claims
\* the parts of a whole text around its complete fence markers
Parts(s) == SplitFence(s)

\* number of complete fence markers in a text
FenceCount(s) == Len(Parts(s)) - 1

Balanced(s) == FenceCount(s) % 2 = 0

\* the texts between the i-th opening marker and its closing marker
FencedTexts(s) == [i \in 1..(FenceCount(s) \div 2) |-> Parts(s)[2 * i]]

\* the final state of a call that receives the whole text as one delta
OneDelta(rich, text) ==
    AfterLoop(rich, LoopBody(rich, NewFrame(0, 0, ""), Content(text)))

\* the state is the one a call leaves when its stream ended normally
Ended == pc = "ret" /\ line.kind \in {"done", "eof"}

ScenarioText == Join([i \in 1..(Len(Scenario) - 1) |-> Scenario[i].content])

Tracker == <<full_content, in_code_block, buffer, current_block_content,
             CODE_BLOCKS, last_prompt_tokens, last_completion_tokens,
             last_finish_reason>>

\* ------------------------------------------------------------------ claims
\* C1: however the response text is cut into deltas, the call ends with the
\* text and the CODE_BLOCKS it ends with when the text arrives as one delta.
C1_SplitInvariance ==
    Ended =>
        /\ result.content = OneDelta(Rich, result.content).full_content
        /\ CODE_BLOCKS = OneDelta(Rich, result.content).CODE_BLOCKS

\* C2: in raw streaming mode, after any prefix of the deltas, in_code_block
\* holds exactly when the text consumed so far contains an odd number of
\* complete fence markers.
C2_FenceParity ==
    pc = "iter" /\ ~Rich => (in_code_block <=> FenceCount(full_content) % 2 = 1)

\* C3: when the text has balanced fence markers, CODE_BLOCKS at the end of
\* the stream is the list of the exact texts between each opening marker and
\* its closing marker.
C3_BlocksBetweenFences ==
    Ended /\ Balanced(result.content) => CODE_BLOCKS = FencedTexts(result.content)

\* C4: on the same lines the rich path and the raw path end in the same final
\* state: returned text, finish reason, CODE_BLOCKS and usage counters.
C4_PathsConverge ==
    Ended =>
        /\ twin.result = result
        /\ twin.CODE_BLOCKS = CODE_BLOCKS
        /\ twin.last_prompt_tokens = last_prompt_tokens
        /\ twin.last_completion_tokens = last_completion_tokens

\* C5: when the stream ends inside a code block, a final entry holding all
\* code text accumulated since the opening marker is appended to CODE_BLOCKS,
\* also when the partial-line buffer is empty.
C5_UnterminatedFlushed ==
    [][/\ pc = "iter" /\ ~Rich /\ in_code_block
       /\ Join(current_block_content) \o buffer # <<>>
       /\ line'.kind \in {"done", "eof"}
       => CODE_BLOCKS' =
              Append(CODE_BLOCKS, Join(current_block_content) \o buffer)]_vars

\* C6: the scripted scenario (a fence with a language tag) ends with the
\* concatenation of its deltas as text and the one block "x = 1\n".
C6_Scenario ==
    [][script = <<Plain("done")>> /\ pc' = "ret"
       => /\ result'.content = ScenarioText
          /\ CODE_BLOCKS' = << <<"x", " ", "=", " ", "1", NL>> >>]_vars

\* C7: an unexpected exception raised while the stream is iterated, after
\* some text was consumed, makes the call return that text with reason
\* "error" in either rendering path.
C7_MidStreamException ==
    [][pc = "iter" /\ full_content # <<>> /\ line'.kind = "neterror"
       => /\ pc' = "ret"
          /\ result'.how = "returned"
          /\ result'.content = full_content
          /\ result'.reason = "error"]_vars

\* C8: a user cancel during a stream makes the call return the text
\* accumulated so far to the session loop instead of raising.
C8_CancelKeepsPartial ==
    [][pc = "iter" /\ full_content # <<>> /\ line'.kind = "sigint"
       => /\ pc' = "ret"
          /\ result'.how = "returned"
          /\ result'.content = full_content]_vars

\* C9: a request that fails before any line is read makes the call return
\* empty text with reason "error", and the session loop then goes on to read
\* the next prompt.
RequestFailures == {"Timeout", "ConnectionError", "RequestException"}

C9_RequestFailure ==
    [][/\ pc = "call" /\ request' \in RequestFailures
          => /\ pc' = "ret"
             /\ result'.how = "returned"
             /\ result'.content = <<>>
             /\ result'.reason = "error"
       /\ pc = "ret" /\ request \in RequestFailures => pc' = "input"]_vars

C9_Witness ==
    /\ pc = "ret"
    /\ request \in RequestFailures
    /\ result.reason = "error"

\* C10: a data line with invalid JSON leaves the text, the fence state, the
\* partial-line buffer, CODE_BLOCKS, the usage counters and the finish reason
\* unchanged, and the loop goes on with the next line.
C10_BadJsonSkipped ==
    [][pc = "iter" /\ line'.kind = "badjson"
       => pc' = "iter" /\ UNCHANGED Tracker]_vars

C10_Witness ==
    /\ pc = "iter"
    /\ line.kind = "badjson"
    /\ in_code_block
    /\ buffer # <<>>
    /\ last_finish_reason # ""

\* C11: every call of stream_completion, whatever its outcome, starts from an
\* empty CODE_BLOCKS: the step that issues the request leaves no block of an
\* earlier call behind.
C11_StartsEmpty ==
    [][pc = "call" => CODE_BLOCKS' = <<>>]_vars

\* C12: for :copy and :diff, a block number below 1 or above
\* len(CODE_BLOCKS) is reported as not found, a block number n within
\* 1..len(CODE_BLOCKS) selects CODE_BLOCKS[n-1] (index n of the sequence), and
\* either way CODE_BLOCKS, messages and the mode state stay as they are.
NotFoundReports == {"not_found", "no_blocks", "file_not_found"}

C12_BlockNumber ==
    [][pc = "input" /\ command'.cmd \in {"copy", "diff"}
          /\ command'.n.kind = "int"
       => LET n == command'.n.val
              reachable == command'.cmd = "diff" => Exists(command'.file)
          IN  /\ UNCHANGED <<CODE_BLOCKS, messages, saved, modes, config>>
              /\ pc' = "input"
              /\ IF 1 <= n /\ n <= Len(CODE_BLOCKS)
                 THEN reachable =>
                        /\ report'.out \in {"copied", "unsupported", "diffed"}
                        /\ report'.n = n
                        /\ report'.block = CODE_BLOCKS[n]
                 ELSE /\ report'.out \in NotFoundReports
                      /\ report'.n = 0
                      /\ reachable /\ CODE_BLOCKS # <<>>
                           => report'.out = "not_found"]_vars

C12_Witness ==
    /\ pc = "input"
    /\ command.cmd = "copy"
    /\ command.n = Num(Len(CODE_BLOCKS) + 1)
    /\ CODE_BLOCKS # <<>>
    /\ report.out = "not_found"

\* C13: :continue, :load of an existing template and :once <prompt> are
\* followed, before the next prompt is read, by a stream_completion call, and
\* the message the command adds is appended to messages exactly once.
C13_CommandGenerates ==
    [][pc = "input"
          /\ \/ command'.cmd \in {"continue", "once"}
             \/ command'.cmd = "load" /\ Exists(command'.file)
       => /\ pc' = "call"
          /\ messages' =
               IF command'.cmd = "continue" THEN Append(messages, ContMsg)
               ELSE IF command'.cmd = "load" THEN Append(messages, TemplateMsg)
               ELSE messages]_vars

\* C14: an ephemeral request ("! <prompt>" or ":once <prompt>") leaves the
\* conversation untouched: from the step that reads it to the step that
\* returns to the prompt, auto-continue rounds included, messages keeps its
\* value and messages.json is not written.
C14_EphemeralLeavesHistory ==
    [][\/ ephemeral_prompt # <<>>
       \/ ephemeral_prompt' # <<>>
       \/ pc = "input" /\ command'.cmd = "once"
       => UNCHANGED <<messages, saved>>]_vars

\* an ephemeral request is in an auto-continue round, with the reply of the
\* first call in hand
C14_Witness ==
    /\ ephemeral_prompt # <<>>
    /\ pc = "ret"
    /\ site = "cont"
    /\ content # <<>>
    /\ result.how = "returned"
    /\ messages = <<SystemMessage>>
    /\ saved = <<>>

\* C15: once the end sentinel is read the iteration stops at once: the call
\* returns the text, finish reason and usage counters it had before the
\* sentinel, with the CODE_BLOCKS the code after the loop leaves, and the
\* next step is the caller's, which reads no further line of the response.
C15_DoneStops ==
    [][/\ pc = "iter" /\ line'.kind = "done"
          => /\ pc' = "ret"
             /\ result' = [how |-> "returned", content |-> full_content,
                           reason |-> last_finish_reason, exc |-> "none"]
             /\ CODE_BLOCKS' = AfterLoop(Rich, Frame).CODE_BLOCKS
             /\ UNCHANGED <<last_prompt_tokens, last_completion_tokens,
                            last_finish_reason>>
       /\ pc = "ret" /\ line.kind = "done"
          => /\ pc' \in {"input", "call"}
             /\ line' = NoLine
             /\ UNCHANGED globals]_vars

C15_Witness ==
    /\ pc = "ret"
    /\ line.kind = "done"
    /\ result.content # <<>>
    /\ result.reason = "stop"
    /\ last_prompt_tokens > 0

\* the text left when every color escape sequence (esc [ digits m) is removed
EscapeLen(s) ==
    IF Len(s) >= 4 /\ s[1] = ESC /\ s[2] = "["
    THEN LET M == {k \in 4..Len(s) :
                     s[k] = "m" /\ \A d \in 3..(k - 1) : s[d] \in Digits}
         IN  IF M = {} THEN 0 ELSE CHOOSE k \in M : \A m \in M : k <= m
    ELSE 0

RECURSIVE Strip(_)
Strip(s) ==
    IF s = <<>> THEN <<>>
    ELSE IF EscapeLen(s) > 0 THEN Strip(SubSeq(s, EscapeLen(s) + 1, Len(s)))
    ELSE <<Head(s)>> \o Strip(Tail(s))

\* a color occurs in a text
Occurs(color, s) ==
    \E k \in 1..(Len(s) - Len(color) + 1) :
        SubSeq(s, k, k + Len(color) - 1) = color

\* C16: removing the color escape sequences from highlight_code_line(line)
\* gives back the line, character for character.
C16_RoundTrip ==
    pc = "highlighted" => Strip(highlighted) = code_line

\* a line whose comment, string, keyword and number are all colored
C16_Witness ==
    /\ pc = "highlighted"
    /\ \A color \in {GRAY, YELLOW, BLUE, CYAN} : Occurs(color, highlighted)

\* the closing markers among the markers of a delta: every second one,
\* starting with the first when the delta arrives inside a block
Closings(inside, delta) ==
    IF inside THEN (FenceCount(delta) + 1) \div 2 ELSE FenceCount(delta) \div 2

C18_TextIsConcatenation ==
    [][/\ pc = "call" /\ pc' = "iter" => full_content' = <<>>
       /\ pc = "iter" /\ pc' = "iter"
          => full_content' =
               full_content \o (IF line'.kind = "chunk" THEN line'.content
                                ELSE <<>>)
       /\ pc = "iter" /\ line'.kind \in {"done", "eof"}
          => /\ result'.how = "returned"
             /\ result'.content = full_content]_vars

\* the scenario's four deltas were returned, markers and language tag in place
C18_Witness ==
    /\ Ended
    /\ result.how = "returned"
    /\ result.content = ScenarioText
    /\ \E k \in 1..Len(result.content) : IsFenceAt(result.content, k)

\* C19: the finish reason and the usage counters a call reports are those of
\* the last chunk it parsed: every parsed chunk sets the finish reason to its
\* own (none when it carries none) and the counters to its usage when it
\* carries one, also when it has no content; and a call that reads nothing
\* but the end of the stream returns no finish reason.
C19_LastChunkReported ==
    [][/\ pc = "iter" /\ line'.kind = "chunk" /\ line'.shape = "ok"
          => /\ last_finish_reason' = line'.finish
             /\ line'.usage # <<>>
                  => /\ last_prompt_tokens' = line'.usage[1]
                     /\ last_completion_tokens' = line'.usage[2]
       /\ pc = "iter" /\ line = NoLine /\ line'.kind \in {"done", "eof"}
          => result'.reason = ""]_vars

\* C20: a data line with valid JSON of an unexpected shape is ignored: the
\* loop goes on with the next line and the state of the call is unchanged.
C20_WrongShapeIgnored ==
    [][pc = "iter" /\ line'.kind = "chunk" /\ line'.shape # "ok"
       => pc' = "iter" /\ UNCHANGED Tracker]_vars

\* C21: auto-continue is bounded. The first call of a prompt starts with
\* count 0; a call that returned is followed by a further call only when it
\* returned "length", which raises count by one up to AUTO_CONTINUE_LIMIT at
\* most (so 1 + AUTO_CONTINUE_LIMIT calls per prompt), and otherwise by the
\* next prompt; after AUTO_CONTINUE_LIMIT rounds, and after a call that
\* raised, the next prompt is read whatever the call reported.
C21_AutoContinueBounded ==
    [][/\ pc = "input" /\ pc' = "call" => count' = 0
       /\ pc = "ret"
          => \/ /\ pc' = "call"
                /\ result.reason = "length"
                /\ count' = count + 1
                /\ count' <= AUTO_CONTINUE_LIMIT
             \/ pc' = "input"
       /\ pc = "ret" /\ count = AUTO_CONTINUE_LIMIT => pc' = "input"
       /\ pc = "raise" => pc' = "input"]_vars

\* the last allowed call of a prompt reports "length" as well
C21_Witness ==
    /\ pc = "ret"
    /\ site = "cont"
    /\ count = AUTO_CONTINUE_LIMIT
    /\ result.reason = "length"
    /\ Len(messages) = 2 + 2 * AUTO_CONTINUE_LIMIT

\* C22: stream_completion leaves messages and MEMORY alone while it runs;
\* when a call of a request that is not ephemeral returns, whatever its
\* finish reason, the session loop appends one assistant message that holds
\* the text returned (and, when it goes on to another call, the continue
\* message after it); when the call raised, messages stays as it was
C22_Reply == Msg("assistant", result.content)

C22_OneAssistantMessage ==
    [][/\ pc \in {"call", "iter"} => UNCHANGED <<messages, MEMORY>>
       /\ pc = "ret" /\ ephemeral_prompt = <<>>
          => \/ /\ pc' = "input"
                /\ messages' = Append(messages, C22_Reply)
             \/ /\ pc' = "call"
                /\ messages' = Append(messages, C22_Reply) \o <<ContMsg>>
       /\ pc = "raise" => UNCHANGED <<messages, MEMORY>>]_vars

\* a continuation call of an ordinary prompt ended with "error" after the
\* first call gave some text
C22_Witness ==
    /\ pc = "ret"
    /\ site = "cont"
    /\ ephemeral_prompt = <<>>
    /\ result.reason = "error"
    /\ content # <<>>
    /\ messages[Len(messages)] = ContMsg

\* the characters of one delta that the tracker takes as code: the parts of
\* the delta that lie inside a block when it starts in state inblock
C23_Code(inblock, delta) ==
    LET parts == SplitFence(delta)
    IN  Join([i \in 1..Len(parts) |->
                IF inblock = (i % 2 = 1) THEN parts[i] ELSE <<>>])

\* every call of highlight_code_line goes with an append of its argument to
\* current_block_content (lines 380-381, 402-403, 416-417), so the text
\* passed so far is what CODE_BLOCKS and current_block_content hold
C23_Passed(blocks, cbc) == Join(blocks) \o Join(cbc)

\* C23: raw mode. After each delta the buffer holds no newline and is empty
\* outside a code block; the code characters of a delta go once each to the
\* lines passed to highlight_code_line or to the buffer; and when the call
\* leaves the loop inside a block with a partial line in the buffer, that
\* line is passed to highlight_code_line (and closes the captured block).
C23_LinesBuffered ==
    [][~Rich =>
         /\ \A i \in DOMAIN buffer' : buffer'[i] # NL
         /\ ~in_code_block' => buffer' = <<>>
         /\ /\ pc = "iter" /\ pc' = "iter"
            /\ line'.kind = "chunk" /\ line'.content # <<>>
            => C23_Passed(CODE_BLOCKS', current_block_content') \o buffer'
               = C23_Passed(CODE_BLOCKS, current_block_content) \o buffer
                 \o C23_Code(in_code_block, line'.content)
         /\ pc = "iter" /\ pc' # "iter" /\ in_code_block /\ buffer # <<>>
            => C23_Passed(CODE_BLOCKS', <<>>)
               = C23_Passed(CODE_BLOCKS, current_block_content) \o buffer]_vars

\* the commands that end in reset_context()
ResetCommands ==
    DOMAIN MODE_PROMPTS
    \cup {"phase", "depth", "format", "engage", "remember", "reset"}

\* C24: :reset and every command that changes the mode, phase, depth, format
\* or engagement or adds a fact leaves messages as the single system message
\* built from the settings then in force (so nothing load_engagement read
\* from messages.json stays); :reset changes no setting, engagement or fact.
C24_ResetLeavesSystemMessage ==
    [][pc = "input" /\ command'.cmd \in ResetCommands
       => LET st == Settings(SEC_MODE', PHASE', DEPTH', FORMAT', ENGAGEMENT',
                             MEMORY', messages', saved', shelf')
          IN  /\ Evaluable(st)
              /\ messages' = <<Msg("system", system_prompt(st))>>
              /\ command'.cmd = "reset"
                 => UNCHANGED <<SEC_MODE, PHASE, DEPTH, FORMAT, ENGAGEMENT,
                                MEMORY>>]_vars

\* C25: SEC_MODE, PHASE, DEPTH and FORMAT each hold a key of their prompt
\* table in every state, and :phase, :depth or :format with a value that is
\* no key leaves the setting as it was.
C25_SettingsAreKeys ==
    [][/\ SEC_MODE' \in DOMAIN MODE_PROMPTS
       /\ PHASE' \in DOMAIN PHASE_PROMPTS
       /\ DEPTH' \in DOMAIN DEPTH_PROMPTS
       /\ FORMAT' \in DOMAIN FORMAT_PROMPTS
       /\ /\ pc = "input"
          /\ command'.cmd \in {"phase", "depth", "format"}
          /\ command'.arg \notin DOMAIN PHASE_PROMPTS \cup DOMAIN DEPTH_PROMPTS
                                 \cup DOMAIN FORMAT_PROMPTS
          => UNCHANGED <<PHASE, DEPTH, FORMAT>>]_vars

\* C26: :compress with five messages or more and a summary request that
\* succeeds leaves four messages: the first message as it was (the system
\* message), a system message that holds the summary, and the last two
\* messages in their order; with fewer messages, or when the request fails,
\* messages is unchanged.
C26_CompressKeepsFour ==
    [][pc = "input" /\ command'.cmd = "compress"
       => IF Len(messages) >= 5 /\ command'.summary_request.how # "raises"
          THEN /\ Len(messages') = 4
               /\ messages'[1] = messages[1]
               /\ messages'[1].role = "system"
               /\ messages'[2] =
                     Msg("system", <<"PREVIOUS SESSION SUMMARY">>
                                   \o command'.summary_request.summary)
               /\ messages'[3] = messages[Len(messages) - 1]
               /\ messages'[4] = messages[Len(messages)]
          ELSE messages' = messages]_vars

\* a conversation of more than five messages was compressed
C26_Witness ==
    /\ command.cmd = "compress"
    /\ command.summary_request.how = "text"
    /\ report.out = "compressed"
    /\ Len(messages) = 4
    /\ messages[2].role = "system"
    /\ messages[4].role = "assistant"

====
